---- MODULE Spec2Model ----
(***************************************************************************)
(* The clipboard core of the repository: extractData, formatContent and    *)
(* copyToClipboard (clipboardUtils), the ClipboardParser component with    *)
(* its history buffer, and the ClipboardType copy handler; the class        *)
(* replacer, the save form (SaveClipboardItem) and the deletion of a        *)
(* library through LibraryManager and the library settings dialog.          *)
(*                                                                         *)
(* Conventions: a nullable value is a sequence of length 0 (null) or 1;    *)
(* a MIME type is the pair <<major, minor>> standing for "major/minor";    *)
(* a text is a sequence of one-character strings.                          *)
(***************************************************************************)
EXTENDS Integers, Sequences, FiniteSets, TLC

VARIABLES
    ext,               \* the extractData call in flight (SpecExtract)
    order,             \* indices of its per-type fetches, in completion order
    urls,              \* object URLs created by URL.createObjectURL and still live
    clipboardHistory,  \* ClipboardParser state: the history buffer
    label,             \* ClipboardParser state: the latest source
    toasts,            \* title of the toast shown last ("" before the first)
    caps,              \* capture events: handler invocations and their progress
    clock,             \* the value of new Date().getTime()
    recorded,          \* ghost: entries passed to setClipboardHistory since the last clear
    fmt,               \* a text, its MIME type, and the results of formatContent (SpecFormat)
    view,              \* ClipboardType: its props (type, data) and state (content, copied)
    cp,                \* the copyToClipboard call of the view, in flight or finished
    clipboard,         \* the representations on the system clipboard
    textAreas,         \* off-screen textareas attached to document.body
    copyListeners,     \* 'copy' listeners registered on the document by copyToClipboard
    copies,            \* clicks on "Copy content" so far
    lib,               \* the user's libraries on the server and the two dialogs that delete them
    sv                 \* SaveClipboardItem: the selected library and its permission checks

vars == <<ext, order, urls, clipboardHistory, label, toasts, caps, clock, recorded, fmt,
          view, cp, clipboard, textAreas, copyListeners, copies, lib, sv>>

-----------------------------------------------------------------------------
(* Bounds *)

\* most MIME types one input advertises
MaxTypes == 2

\* capture events (paste, drop, explicit read) in one session
MaxCaptures == 2

\* last value of the millisecond clock
MaxClock == 1

\* libraries the user owns when the session starts
MaxLibraries == 2

\* library selections made in one save form
MaxSelections == 3

\* submissions of one save form
MaxSaves == 1

\* class replacements made on one payload
MaxReplacements == 1

-----------------------------------------------------------------------------
(* Values *)

Null == << >>
Some(v) == <<v>>

TextPlain == <<"text", "plain">>
TextHtml == <<"text", "html">>
ImagePng == <<"image", "png">>
AppJson == <<"application", "json">>
MimeTypes == {TextPlain, TextHtml, ImagePng}

Hello == <<"h", "e", "l", "l", "o">>
BoldHello == <<"<", "b", ">">> \o Hello \o <<"<", "/", "b", ">">>
Strings == {Hello, BoldHello}

\* File objects of a transfer (name, size, type)
Files == {[name |-> "a.png", size |-> 3, type |-> ImagePng],
          [name |-> "b.txt", size |-> 5, type |-> TextPlain]}

\* DataTransferItem: kind, type, and what getAsFile() returns
TransferItems ==
    {[kind |-> "string", type |-> TextPlain, file |-> Null]}
    \cup {[kind |-> "file", type |-> f.type, file |-> Some(f)] : f \in Files}

\* Blob handed out by ClipboardItem.getType: ok = FALSE is a rejected fetch
Blobs ==
    {[ok |-> FALSE, type |-> TextPlain, text |-> Hello]}
    \cup {[ok |-> TRUE, type |-> t, text |-> s] : t \in MimeTypes, s \in Strings}

SeqsUpTo(S, n) == UNION {[1..k -> S] : k \in 0..n}

\* a list without repetitions
Distinct(seq) == \A i, j \in 1..Len(seq) : i # j => seq[i] # seq[j]

\* the value undefined
Undefined == [type |-> "undefined"]

StringData(s) == [kind |-> "string", text |-> s]
FileData(fi) == [kind |-> "file", file |-> fi]

-----------------------------------------------------------------------------
(* Raw inputs of extractData *)

DataTransfers ==
    [kind : {"DataTransfer"},
     types : {ts \in SeqsUpTo(MimeTypes, MaxTypes) : Distinct(ts)},
     data : [MimeTypes -> Strings],
     items : {Null} \cup {Some(s) : s \in SeqsUpTo(TransferItems, 1)},
     files : {Null} \cup {Some(s) : s \in SeqsUpTo(Files, 1)}]

ClipboardItems ==
    UNION {[kind : {"ClipboardItem"},
            types : {ts \in [1..k -> MimeTypes] : Distinct(ts)},
            blobs : [1..k -> Blobs]] : k \in 1..MaxTypes}

\* null, undefined, and values that are neither shape (a string, a plain object)
OtherInputs == {[kind |-> "null"], [kind |-> "undefined"],
                [kind |-> "emptyString"], [kind |-> "string"], [kind |-> "object"]}

RawInputs == DataTransfers \cup ClipboardItems \cup OtherInputs

\* JavaScript truthiness of the input: !data
Falsy(raw) == raw.kind \in {"null", "undefined", "emptyString"}

-----------------------------------------------------------------------------
(* createFileInfo and extractData *)

\* createFileInfo on a non-null file; url is the object URL createObjectURL returns
CreateFileInfo(file, url) ==
    [name |-> file.name, size |-> file.size, type |-> file.type, url |-> url]

\* the object URL handed out after n were: URLs are fresh
FreshUrl(n) == n + 1

\* how many of the first i items expose a file
FilesAmong(items, i) == Cardinality({j \in 1..i : items[j].file # Null})

ItemFileCount(raw) ==
    IF raw.items = Null THEN 0 ELSE FilesAmong(raw.items[1], Len(raw.items[1]))

\* blob.type.match(/^text\//)
IsTextual(mime) == mime[1] = "text"

\* a variant that reads the payload of the first type for every type
ExtractTransferFirstData(raw, base) ==
    [type |-> "DataTransfer",
     types |-> [i \in 1..Len(raw.types) |->
                  [type |-> raw.types[i], data |-> StringData(raw.data[raw.types[1]])]],
     items |-> Null,
     files |-> Null]

\* the DataTransfer branch; base is the number of object URLs created before
ExtractTransfer(raw, base) ==
    [type |-> "DataTransfer",
     types |-> [i \in 1..Len(raw.types) |->
                  [type |-> raw.types[i], data |-> StringData(raw.data[raw.types[i]])]],
     items |-> IF raw.items = Null THEN Null
               ELSE Some([i \in 1..Len(raw.items[1]) |->
                      LET it == raw.items[1][i]
                      IN [kind |-> it.kind, type |-> it.type,
                          as_file |-> IF it.file = Null THEN Null
                                      ELSE Some(CreateFileInfo(it.file[1],
                                             FreshUrl(base + FilesAmong(raw.items[1], i - 1))))]]),
     files |-> IF raw.files = Null THEN Null
               ELSE Some([i \in 1..Len(raw.files[1]) |->
                      CreateFileInfo(raw.files[1][i],
                                     FreshUrl(base + ItemFileCount(raw) + i - 1))])]

\* object URLs the DataTransfer branch creates
TransferUrlCount(raw) ==
    ItemFileCount(raw) + (IF raw.files = Null THEN 0 ELSE Len(raw.files[1]))

\* one per-type task of the ClipboardItem branch, before its first await resolves
NewTask == [pc |-> "getType", data |-> StringData(<< >>)]

\* a variant without the guards: it reads data.types of any input and throws
ExtractCallUnguarded(raw, base) ==
    IF ~Falsy(raw) /\ raw.kind = "DataTransfer" THEN
        [raw |-> raw, state |-> "resolved", value |-> ExtractTransfer(raw, base),
         tasks |-> << >>]
    ELSE IF ~Falsy(raw) /\ raw.kind = "ClipboardItem" /\ Len(raw.types) > 0 THEN
        [raw |-> raw, state |-> "pending", value |-> Undefined,
         tasks |-> [i \in 1..Len(raw.types) |-> NewTask]]
    ELSE
        [raw |-> raw, state |-> "rejected", value |-> Undefined, tasks |-> << >>]

\* extractData up to its first suspension: the call's state
\*   state: "resolved" (value is the result), "pending", "rejected"
ExtractCall(raw, base) ==
    IF Falsy(raw) THEN
        [raw |-> raw, state |-> "resolved", value |-> Undefined, tasks |-> << >>]
    ELSE IF raw.kind = "DataTransfer" THEN
        [raw |-> raw, state |-> "resolved", value |-> ExtractTransfer(raw, base),
         tasks |-> << >>]
    ELSE IF raw.kind = "ClipboardItem" THEN
        IF Len(raw.types) = 0 THEN
            [raw |-> raw, state |-> "resolved",
             value |-> [type |-> "ClipboardItem", types |-> << >>], tasks |-> << >>]
        ELSE
            [raw |-> raw, state |-> "pending", value |-> Undefined,
             tasks |-> [i \in 1..Len(raw.types) |-> NewTask]]
    ELSE
        [raw |-> raw, state |-> "resolved", value |-> Undefined, tasks |-> << >>]

CallUrlCount(raw) ==
    IF ~Falsy(raw) /\ raw.kind = "DataTransfer" THEN TransferUrlCount(raw) ELSE 0

\* a task that can take a step
TaskActive(x, i) == i \in 1..Len(x.tasks) /\ x.tasks[i].pc \in {"getType", "text"}

\* a variant that decides by the advertised type instead of the blob's type
TaskStepByAdvertisedType(x, i, base) ==
    LET t == x.tasks[i]
        blob == x.raw.blobs[i]
    IN IF t.pc = "getType" THEN
           IF ~blob.ok THEN [t EXCEPT !.pc = "failed"]
           ELSE IF IsTextual(x.raw.types[i]) THEN [t EXCEPT !.pc = "text"]
           ELSE [pc |-> "done",
                 data |-> FileData(CreateFileInfo(
                              [name |-> "", size |-> 1, type |-> blob.type],
                              FreshUrl(base)))]
       ELSE [pc |-> "done", data |-> StringData(blob.text)]

\* the async arrow function of one type, run to its next await or its end
TaskStep(x, i, base) ==
    LET t == x.tasks[i]
        blob == x.raw.blobs[i]
    IN IF t.pc = "getType" THEN
           IF ~blob.ok THEN [t EXCEPT !.pc = "failed"]
           ELSE IF IsTextual(blob.type) THEN [t EXCEPT !.pc = "text"]
           ELSE [pc |-> "done",
                 data |-> FileData(CreateFileInfo(
                              [name |-> "", size |-> 1, type |-> blob.type],
                              FreshUrl(base)))]
       ELSE [pc |-> "done", data |-> StringData(blob.text)]

TaskUrlCount(x, i) ==
    IF x.tasks[i].pc = "getType" /\ x.raw.blobs[i].ok /\ ~IsTextual(x.raw.blobs[i].type)
    THEN 1 ELSE 0

\* a variant that collects the results as they arrive: by completion order
JoinByCompletion(raw, tasks) ==
    LET last == CHOOSE i \in 1..Len(tasks) : \A k \in 1..Len(order) : order[k] # i
        ord == Append(order, last)
    IN [k \in 1..Len(tasks) |-> [type |-> raw.types[ord[k]], data |-> tasks[ord[k]].data]]

\* Promise.all over the tasks: the results by position
JoinTasks(raw, tasks) ==
    [i \in 1..Len(tasks) |-> [type |-> raw.types[i], data |-> tasks[i].data]]

\* the call after task i took a step; Promise.all settles on the first failure
\* or when the last task is done
StepCall(x, i, base) ==
    LET tasks == [x.tasks EXCEPT ![i] = TaskStep(x, i, base)]
    IN IF x.state # "pending" THEN [x EXCEPT !.tasks = tasks]
       ELSE IF tasks[i].pc = "failed" THEN [x EXCEPT !.tasks = tasks, !.state = "rejected"]
       ELSE IF \A j \in 1..Len(tasks) : tasks[j].pc = "done" THEN
           [x EXCEPT !.tasks = tasks, !.state = "resolved",
                     !.value = [type |-> "ClipboardItem",
                                types |-> JoinTasks(x.raw, tasks)]]
       ELSE [x EXCEPT !.tasks = tasks]

-----------------------------------------------------------------------------
(* SpecExtract: one call of extractData on any input *)

NoCall == [raw |-> [kind |-> "none"], state |-> "idle", value |-> Undefined,
           tasks |-> << >>]

NoFormat == [pc |-> "idle", text |-> << >>, type |-> TextPlain,
             valid |-> << >>, once |-> << >>, twice |-> << >>]

NoCopy == [pc |-> "idle", content |-> << >>, isJson |-> FALSE,
           env |-> [throwAt |-> "none", exec |-> FALSE, api |-> "absent",
                    itemThrows |-> FALSE],
           legacy |-> [threw |-> FALSE, textArea |-> 0, listener |-> 0, handler |-> FALSE,
                       wrote |-> << >>, ok |-> FALSE],
           attempts |-> << >>, modernOp |-> "none", result |-> FALSE]

NoView == [type |-> TextPlain, data |-> StringData(<< >>),
           content |-> StringData(<< >>), copied |-> FALSE,
           replaced |-> 0, replacement |-> Null]

\* LibraryManager: the delete state of the manager dialog, before any click
NoManagerDelete ==
    [libraryToDelete |-> Null, deleteDialogOpen |-> FALSE, deleteConfirmText |-> "",
     deletingLibrary |-> FALSE, pc |-> "idle", steps |-> << >>]

\* useLibrarySettings: the delete state of the settings dialog, before any click
NoSettingsDelete ==
    [library |-> Null, showDeleteConfirmDialog |-> FALSE, deleteLibraryText |-> "",
     deleting |-> FALSE, pc |-> "idle", steps |-> << >>]

\* no library on the server and no dialog open
NoLibraries ==
    [owned |-> {}, perms |-> {}, items |-> {}, ui |-> "none", libraries |-> {},
     mgr |-> NoManagerDelete, dlg |-> NoSettingsDelete, toast |-> ""]

\* SaveClipboardItem before it is mounted
NoSave ==
    [selectedLibrary |-> Null, hasEditPermission |-> FALSE, checks |-> << >>,
     selections |-> 0, isSaving |-> FALSE, inserts |-> << >>, toast |-> ""]

LibraryIdle ==
    /\ lib = NoLibraries
    /\ sv = NoSave

CopyIdle ==
    /\ view = NoView
    /\ cp = NoCopy
    /\ clipboard = {}
    /\ textAreas = 0
    /\ copyListeners = 0
    /\ copies = 0

HistoryIdle ==
    /\ clipboardHistory = << >>
    /\ label = ""
    /\ toasts = ""
    /\ caps = << >>
    /\ clock = 0
    /\ recorded = << >>
    /\ fmt = NoFormat
    /\ CopyIdle

copyVars == <<view, cp, clipboard, textAreas, copyListeners, copies>>

libraryVars == <<lib, sv>>

parserVars ==
    <<ext, order, urls, clipboardHistory, label, toasts, caps, clock, recorded, fmt, copyVars>>

historyVars ==
    <<clipboardHistory, label, toasts, caps, clock, recorded, fmt, copyVars, libraryVars>>

InitExtract ==
    /\ ext = NoCall
    /\ order = << >>
    /\ urls = 0
    /\ HistoryIdle
    /\ LibraryIdle

\* extractData(raw) is called
CallExtract ==
    /\ ext.state = "idle"
    /\ \E raw \in RawInputs :
        /\ ext' = ExtractCall(raw, urls)
        /\ urls' = urls + CallUrlCount(raw)
    /\ UNCHANGED <<order, historyVars>>

\* one of the pending awaits of the call resolves or rejects
FetchStep ==
    /\ \E i \in 1..Len(ext.tasks) :
        /\ TaskActive(ext, i)
        /\ ext' = StepCall(ext, i, urls)
        /\ urls' = urls + TaskUrlCount(ext, i)
        /\ order' = IF ext'.tasks[i].pc \in {"done", "failed"}
                    THEN Append(order, i) ELSE order
    /\ UNCHANGED historyVars

NextExtract == CallExtract \/ FetchStep

SpecExtract == InitExtract /\ [][NextExtract]_vars

-----------------------------------------------------------------------------
(* Claims about extractData, under SpecExtract *)

Settled == ext.state # "idle" /\ \A i \in 1..Len(ext.tasks) : ~TaskActive(ext, i)

\* what the blob of position i decodes to; the object URL is not compared
BlobMatches(p, blob) ==
    IF IsTextual(blob.type) THEN p.data = StringData(blob.text)
    ELSE p.data.kind = "file" /\ p.data.file.type = blob.type

\* C3: for a clipboard item, the types of the resolved entry are the advertised
\* types in enumeration order, each with the content of its own blob, whatever
\* the order in which the per-type fetches completed.
C3_TypesInEnumerationOrder ==
    (ext.raw.kind = "ClipboardItem" /\ ext.state = "resolved") =>
        /\ Len(ext.value.types) = Len(ext.raw.types)
        /\ \A i \in 1..Len(ext.raw.types) :
              /\ ext.value.types[i].type = ext.raw.types[i]
              /\ BlobMatches(ext.value.types[i], ext.raw.blobs[i])

\* an entry of two different types whose second fetch completed first
C3_Witness ==
    /\ ext.raw.kind = "ClipboardItem" /\ ext.state = "resolved"
    /\ Len(ext.raw.types) = 2 /\ ext.raw.types[1] # ext.raw.types[2]
    /\ order = <<2, 1>>

NonEmpty(field) == field # Null /\ Len(field[1]) > 0

HasContent(entry) ==
    \/ Len(entry.types) > 0
    \/ ("items" \in DOMAIN entry /\ NonEmpty(entry.items))
    \/ ("files" \in DOMAIN entry /\ NonEmpty(entry.files))

\* C4: an entry that extractData returns has a non-empty types, items or files
\* sequence; a recognized input exposing none of them yields undefined.
C4_EntryNeverEmpty ==
    (ext.state = "resolved" /\ ext.value # Undefined) => HasContent(ext.value)

\* the representations whose fetch succeeded, in enumeration order
RECURSIVE Successful(_, _)
Successful(x, i) ==
    IF i = 0 THEN << >>
    ELSE IF x.tasks[i].pc = "done"
         THEN Append(Successful(x, i - 1),
                     [type |-> x.raw.types[i], data |-> x.tasks[i].data])
         ELSE Successful(x, i - 1)

\* C5: when the fetch of one type fails and the others succeed, the call still
\* resolves to an entry holding the successful representations in order.
C5_FailedTypeOmitted ==
    (/\ ext.raw.kind = "ClipboardItem" /\ Settled
     /\ \E i \in 1..Len(ext.tasks) : ext.tasks[i].pc = "failed"
     /\ \E i \in 1..Len(ext.tasks) : ext.tasks[i].pc = "done")
    => (/\ ext.state = "resolved"
        /\ ext.value.types = Successful(ext, Len(ext.tasks)))

Recognized(raw) == ~Falsy(raw) /\ raw.kind \in {"DataTransfer", "ClipboardItem"}

\* C6: for an input that is null, absent or of neither recognized shape the call
\* resolves (does not reject) to undefined.
C6_UnrecognizedIsUndefined ==
    (ext.state # "idle" /\ ~Recognized(ext.raw)) =>
        (ext.state = "resolved" /\ ext.value = Undefined)

C6_Witness ==
    ext.raw.kind \in {"null", "object"} /\ ext.state = "resolved"

C23_PayloadKindFollowsBlobType ==
    (ext.raw.kind = "ClipboardItem" /\ ext.state = "resolved") =>
        \A i \in 1..Len(ext.raw.types) :
            /\ ext.value.types[i].type = ext.raw.types[i]
            /\ ext.value.types[i].data.kind \in {"string", "file"}
            /\ ext.value.types[i].data.kind = "string" <=> IsTextual(ext.raw.blobs[i].type)
            /\ ext.value.types[i].data.kind = "string" =>
                   ext.value.types[i].data.text = ext.raw.blobs[i].text

\* a type advertised as image/png whose blob declares text/plain was decoded, and
\* a type advertised as text/plain whose blob declares image/png was wrapped
C23_Witness ==
    /\ ext.raw.kind = "ClipboardItem" /\ ext.state = "resolved"
    /\ ext.raw.types = <<ImagePng, TextPlain>>
    /\ ext.raw.blobs[1].type = TextPlain /\ ext.raw.blobs[2].type = ImagePng
    /\ ext.value.types[1].data.kind = "string"
    /\ ext.value.types[2].data.kind = "file"

\* C14: whatever platform operation fails, extractData completes by returning an
\* entry or undefined, never by rejecting.
C14_ExtractNeverRejects ==
    ext.state # "rejected"

-----------------------------------------------------------------------------
(* JSON.parse, JSON.stringify(_, null, 2), formatJson, isValidJson, formatContent *)
(* Texts are over an alphabet without ".", "e", "E", "+" and without the    *)
(* escapes \b and \u: numbers are integers.                                  *)

Quote == "\""
Backslash == "\\"
LF == "\n"
TAB == "\t"
CR == "\r"
FF == "\f"

\* JSON whitespace
JsonWs == {" ", LF, TAB, CR}

\* characters that may not appear raw inside a JSON string
ControlChars == {LF, TAB, CR, FF}

DigitChars == <<"0", "1", "2", "3", "4", "5", "6", "7", "8", "9">>
IsDigit(c) == \E d \in 1..10 : DigitChars[d] = c
DigitValue(c) == (CHOOSE d \in 1..10 : DigitChars[d] = c) - 1

\* JSON values
JNum(n) == [t |-> "num", n |-> n]
JStr(str) == [t |-> "str", s |-> str]
JLit(name) == [t |-> "lit", v |-> name]
JArr(elems) == [t |-> "arr", a |-> elems]
JObj(members) == [t |-> "obj", o |-> members]

\* a parse result: ok, the value, and the position after it
ParseFail == [ok |-> FALSE, v |-> JLit("null"), p |-> 0]
ParseOk(v, p) == [ok |-> TRUE, v |-> v, p |-> p]

RECURSIVE SkipWs(_, _)
SkipWs(s, p) == IF p <= Len(s) /\ s[p] \in JsonWs THEN SkipWs(s, p + 1) ELSE p

RECURSIVE ParseDigits(_, _, _)
ParseDigits(s, p, n) ==
    IF p <= Len(s) /\ IsDigit(s[p])
    THEN ParseDigits(s, p + 1, n * 10 + DigitValue(s[p]))
    ELSE [n |-> n, p |-> p]

\* number: -? (0 | [1-9][0-9]*); -0 is the number 0 to JSON.stringify
ParseNumber(s, p) ==
    LET neg == s[p] = "-"
        q == IF neg THEN p + 1 ELSE p
    IN IF q > Len(s) \/ ~IsDigit(s[q]) THEN ParseFail
       ELSE IF s[q] = "0" THEN ParseOk(JNum(0), q + 1)
       ELSE LET d == ParseDigits(s, q, 0)
            IN ParseOk(JNum(IF neg THEN 0 - d.n ELSE d.n), d.p)

\* the character an escape \c stands for, or Null
Unescape(c) ==
    IF c = Quote THEN Some(Quote)
    ELSE IF c = Backslash THEN Some(Backslash)
    ELSE IF c = "/" THEN Some("/")
    ELSE IF c = "n" THEN Some(LF)
    ELSE IF c = "t" THEN Some(TAB)
    ELSE IF c = "r" THEN Some(CR)
    ELSE IF c = "f" THEN Some(FF)
    ELSE Null

\* string contents from position p (after the opening quote)
RECURSIVE ParseChars(_, _, _)
ParseChars(s, p, acc) ==
    IF p > Len(s) THEN ParseFail
    ELSE IF s[p] = Quote THEN ParseOk(JStr(acc), p + 1)
    ELSE IF s[p] \in ControlChars THEN ParseFail
    ELSE IF s[p] = Backslash THEN
        IF p + 1 > Len(s) \/ Unescape(s[p + 1]) = Null THEN ParseFail
        ELSE ParseChars(s, p + 2, Append(acc, Unescape(s[p + 1])[1]))
    ELSE ParseChars(s, p + 1, Append(acc, s[p]))

StartsWith(s, p, word) ==
    /\ p + Len(word) - 1 <= Len(s)
    /\ \A k \in 1..Len(word) : s[p + k - 1] = word[k]

\* a property key that is a canonical array index: digits without a leading zero
IsArrayIndex(key) ==
    /\ Len(key) > 0
    /\ \A k \in 1..Len(key) : IsDigit(key[k])
    /\ (key[1] = "0" => Len(key) = 1)

IndexValue(key) == ParseDigits(key, 1, 0).n

\* where a new key goes in the property order of a JavaScript object: array
\* indices first, ascending, then the other keys in insertion order
InsertAt(members, key) ==
    IF IsArrayIndex(key) THEN
        1 + Cardinality({k \in 1..Len(members) :
                            /\ IsArrayIndex(members[k].k)
                            /\ IndexValue(members[k].k) < IndexValue(key)})
    ELSE Len(members) + 1

\* obj[key] = value: a repeated key keeps its place and takes the new value
SetMember(members, key, value) ==
    IF \E k \in 1..Len(members) : members[k].k = key THEN
        [k \in 1..Len(members) |->
            IF members[k].k = key THEN [k |-> key, v |-> value] ELSE members[k]]
    ELSE LET at == InsertAt(members, key)
         IN SubSeq(members, 1, at - 1) \o <<[k |-> key, v |-> value]>>
            \o SubSeq(members, at, Len(members))

RECURSIVE ParseValue(_, _)
RECURSIVE ParseElements(_, _, _)
RECURSIVE ParseMembers(_, _, _)

\* value: surrounding whitespace is skipped
ParseValue(s, p0) ==
    LET p == SkipWs(s, p0)
    IN IF p > Len(s) THEN ParseFail
       ELSE LET r ==
                IF s[p] = "[" THEN
                    IF SkipWs(s, p + 1) <= Len(s) /\ s[SkipWs(s, p + 1)] = "]"
                    THEN ParseOk(JArr(<< >>), SkipWs(s, p + 1) + 1)
                    ELSE ParseElements(s, p + 1, << >>)
                ELSE IF s[p] = "{" THEN
                    IF SkipWs(s, p + 1) <= Len(s) /\ s[SkipWs(s, p + 1)] = "}"
                    THEN ParseOk(JObj(<< >>), SkipWs(s, p + 1) + 1)
                    ELSE ParseMembers(s, p + 1, << >>)
                ELSE IF s[p] = Quote THEN ParseChars(s, p + 1, << >>)
                ELSE IF s[p] = "-" \/ IsDigit(s[p]) THEN ParseNumber(s, p)
                ELSE IF StartsWith(s, p, <<"t", "r", "u", "e">>)
                    THEN ParseOk(JLit("true"), p + 4)
                ELSE IF StartsWith(s, p, <<"f", "a", "l", "s", "e">>)
                    THEN ParseOk(JLit("false"), p + 5)
                ELSE IF StartsWith(s, p, <<"n", "u", "l", "l">>)
                    THEN ParseOk(JLit("null"), p + 4)
                ELSE ParseFail
            IN IF r.ok THEN ParseOk(r.v, SkipWs(s, r.p)) ELSE ParseFail

\* elements of a non-empty array from position p
ParseElements(s, p, acc) ==
    LET r == ParseValue(s, p)
    IN IF ~r.ok \/ r.p > Len(s) THEN ParseFail
       ELSE IF s[r.p] = "]" THEN ParseOk(JArr(Append(acc, r.v)), r.p + 1)
       ELSE IF s[r.p] = "," THEN ParseElements(s, r.p + 1, Append(acc, r.v))
       ELSE ParseFail

\* members of a non-empty object from position p
ParseMembers(s, p0, acc) ==
    LET p == SkipWs(s, p0)
    IN IF p > Len(s) \/ s[p] # Quote THEN ParseFail
       ELSE LET key == ParseChars(s, p + 1, << >>)
                colon == SkipWs(s, key.p)
            IN IF ~key.ok \/ colon > Len(s) \/ s[colon] # ":" THEN ParseFail
               ELSE LET r == ParseValue(s, colon + 1)
                        members == SetMember(acc, key.v.s, r.v)
                    IN IF ~r.ok \/ r.p > Len(s) THEN ParseFail
                       ELSE IF s[r.p] = "}" THEN ParseOk(JObj(members), r.p + 1)
                       ELSE IF s[r.p] = "," THEN ParseMembers(s, r.p + 1, members)
                       ELSE ParseFail

\* JSON.parse(text): ok is FALSE where it throws SyntaxError
JsonParse(text) ==
    LET r == ParseValue(text, 1)
    IN IF r.ok /\ r.p = Len(text) + 1 THEN r ELSE ParseFail

RECURSIVE NatDigits(_)
NatDigits(n) ==
    IF n < 10 THEN <<DigitChars[n + 1]>>
    ELSE Append(NatDigits(n \div 10), DigitChars[(n % 10) + 1])

NumberText(n) == IF n < 0 THEN <<"-">> \o NatDigits(0 - n) ELSE NatDigits(n)

\* a variant that escapes the quote only
EscapeQuoteOnly(c) ==
    IF c = Quote THEN <<Backslash, Quote>> ELSE <<c>>

\* the escape JSON.stringify writes for a character of a string
EscapeChar(c) ==
    IF c = Quote THEN <<Backslash, Quote>>
    ELSE IF c = Backslash THEN <<Backslash, Backslash>>
    ELSE IF c = LF THEN <<Backslash, "n">>
    ELSE IF c = TAB THEN <<Backslash, "t">>
    ELSE IF c = CR THEN <<Backslash, "r">>
    ELSE IF c = FF THEN <<Backslash, "f">>
    ELSE <<c>>

RECURSIVE EscapeAll(_)
EscapeAll(str) ==
    IF str = << >> THEN << >> ELSE EscapeChar(Head(str)) \o EscapeAll(Tail(str))

QuoteText(str) == <<Quote>> \o EscapeAll(str) \o <<Quote>>

\* the indentation of nesting level n: n copies of the 2-space gap
RECURSIVE Indent(_)
Indent(n) == IF n = 0 THEN << >> ELSE <<" ", " ">> \o Indent(n - 1)

RECURSIVE Stringify(_, _)
RECURSIVE JoinLines(_, _, _)

\* the items of an array or object, one per line at level n, separated by commas
JoinLines(items, isObject, n) ==
    IF items = << >> THEN << >>
    ELSE LET it == Head(items)
             line == Indent(n) \o
                     (IF isObject
                      THEN QuoteText(it.k) \o <<":", " ">> \o Stringify(it.v, n)
                      ELSE Stringify(it, n))
         IN IF Len(items) = 1 THEN line
            ELSE line \o <<",", LF>> \o JoinLines(Tail(items), isObject, n)

\* JSON.stringify(value, null, 2) of a value at nesting level n
Stringify(v, n) ==
    IF v.t = "num" THEN NumberText(v.n)
    ELSE IF v.t = "str" THEN QuoteText(v.s)
    ELSE IF v.t = "lit" THEN
        (IF v.v = "true" THEN <<"t", "r", "u", "e">>
         ELSE IF v.v = "false" THEN <<"f", "a", "l", "s", "e">>
         ELSE <<"n", "u", "l", "l">>)
    ELSE IF v.t = "arr" THEN
        (IF v.a = << >> THEN <<"[", "]">>
         ELSE <<"[", LF>> \o JoinLines(v.a, FALSE, n + 1) \o <<LF>> \o Indent(n) \o <<"]">>)
    ELSE
        (IF v.o = << >> THEN <<"{", "}">>
         ELSE <<"{", LF>> \o JoinLines(v.o, TRUE, n + 1) \o <<LF>> \o Indent(n) \o <<"}">>)

\* formatJson: the catch block returns the original text
FormatJson(jsonString) ==
    LET r == JsonParse(jsonString)
    IN IF r.ok THEN Stringify(r.v, 0) ELSE jsonString

\* a variant that accepts every text that begins with a JSON value
IsValidJsonPrefix(str) == ParseValue(str, 1).ok

IsValidJson(str) == JsonParse(str).ok

\* a variant that also reformats texts of a JSON type
FormatContentAnyJson(content, type) ==
    IF (type = TextPlain \/ type = AppJson) /\ IsValidJson(content)
    THEN FormatJson(content) ELSE content

FormatContent(content, type) ==
    IF type = TextPlain /\ IsValidJson(content) THEN FormatJson(content) ELSE content

-----------------------------------------------------------------------------
(* ClipboardParser: the history buffer and the capture handlers *)

\* an object that is neither a DataTransfer nor a ClipboardItem of the page's
\* realm (handed out by a polyfill of the clipboard API or by another realm)
ForeignObject == [kind |-> "object"]

\* what paste and drop events carry
TransferSamples ==
    {ForeignObject,
     [kind |-> "DataTransfer", types |-> << >>, data |-> [m \in MimeTypes |-> Hello],
      items |-> Some(<< >>), files |-> Some(<< >>)],
     [kind |-> "DataTransfer", types |-> <<TextPlain, TextHtml>>,
      data |-> [m \in MimeTypes |-> IF m = TextHtml THEN BoldHello ELSE Hello],
      items |-> Some(<<[kind |-> "file", type |-> ImagePng,
                        file |-> Some([name |-> "a.png", size |-> 3, type |-> ImagePng])]>>),
      files |-> Some(<<[name |-> "a.png", size |-> 3, type |-> ImagePng]>>)]}

\* clipboard items: a text, an image, and a text whose blob fetch rejects
TextItem ==
    [kind |-> "ClipboardItem", types |-> <<TextPlain>>,
     blobs |-> <<[ok |-> TRUE, type |-> TextPlain, text |-> Hello]>>]
ImageItem ==
    [kind |-> "ClipboardItem", types |-> <<ImagePng>>,
     blobs |-> <<[ok |-> TRUE, type |-> ImagePng, text |-> Hello]>>]
FailingItem ==
    [kind |-> "ClipboardItem", types |-> <<TextPlain>>,
     blobs |-> <<[ok |-> FALSE, type |-> TextPlain, text |-> Hello]>>]

\* the lists of clipboard items navigator.clipboard.read() resolves with
ReadResults ==
    {<< >>, <<TextItem>>, <<ImageItem>>, <<FailingItem>>,
     <<TextItem, ImageItem>>, <<TextItem, FailingItem>>,
     <<ForeignObject>>, <<ForeignObject, TextItem>>}

\* if (data): an entry object is truthy, undefined is not
Truthy(data) == data # Undefined

\* a variant of the updater that puts the entry at the end
AppendEntry(prev, entry) == Append(prev, entry)

\* the state updater prev => [entry, ...prev]
PrependEntry(prev, entry) == <<entry>> \o prev

\* the component state a handler reads and writes; raised is the title of the
\* toast the running handler raised last ("": none)
ParserState ==
    [history |-> clipboardHistory, label |-> label, toasts |-> toasts, raised |-> ""]

Toast(st, title) == [st EXCEPT !.toasts = title, !.raised = title]

\* the entries of a sequence that hold other data, in order
RECURSIVE Without(_, _)
Without(entries, data) ==
    IF entries = << >> THEN << >>
    ELSE IF Head(entries).data = data THEN Without(Tail(entries), data)
    ELSE <<Head(entries)>> \o Without(Tail(entries), data)

\* a variant that drops earlier entries holding the same data
AddToHistoryDedup(st, data, source, now) ==
    IF Truthy(data) THEN
        Toast([st EXCEPT
                 !.history = PrependEntry(Without(st.history, data),
                                 [data |-> data, source |-> source, timestamp |-> now]),
                 !.label = source],
              "Clipboard content parsed")
    ELSE st

\* a variant that drops an entry when the buffer already holds an entry of
\* another source
AddToHistorySuperseding(st, data, source, now) ==
    IF Truthy(data) /\ \A k \in 1..Len(st.history) : st.history[k].source = source THEN
        Toast([st EXCEPT
                 !.history = PrependEntry(st.history,
                                 [data |-> data, source |-> source, timestamp |-> now]),
                 !.label = source],
              "Clipboard content parsed")
    ELSE st

\* addToHistory(data, source) at time now
AddToHistory(st, data, source, now) ==
    IF Truthy(data) THEN
        Toast([st EXCEPT
                 !.history = PrependEntry(st.history,
                                 [data |-> data, source |-> source, timestamp |-> now]),
                 !.label = source],
              "Clipboard content parsed")
    ELSE st

\* a variant that records the items so that the first item ends at the head
RECURSIVE AddAllKeepOrder(_, _, _, _)
AddAllKeepOrder(st, datas, source, now) ==
    IF datas = << >> THEN st
    ELSE AddToHistory(AddAllKeepOrder(st, Tail(datas), source, now),
                      Head(datas), source, now)

\* validData.forEach(data => addToHistory(data, source))
RECURSIVE AddAll(_, _, _, _)
AddAll(st, datas, source, now) ==
    IF datas = << >> THEN st
    ELSE AddAll(AddToHistory(st, Head(datas), source, now), Tail(datas), source, now)

SetParser(st) ==
    /\ clipboardHistory' = st.history
    /\ label' = st.label
    /\ toasts' = st.toasts

\* ghost: the entries a handler recorded, oldest first, tagged with its capture
Log(c, datas, source, now) ==
    [k \in 1..Len(datas) |->
        [cap |-> c, entry |-> [data |-> datas[k], source |-> source, timestamp |-> now]]]

\* extractedData.filter(Boolean)
RECURSIVE ValidData(_)
ValidData(values) ==
    IF values = << >> THEN << >>
    ELSE IF Truthy(Head(values)) THEN <<Head(values)>> \o ValidData(Tail(values))
    ELSE ValidData(Tail(values))

InitHistory ==
    /\ ext = NoCall
    /\ order = << >>
    /\ urls = 0
    /\ HistoryIdle
    /\ LibraryIdle

\* ghost: what a finished handler did: the extractData calls it made, how many
\* of them yielded undefined, whether an awaited promise rejected, the values the
\* calls resolved with (none after a rejection), the entries it recorded, the
\* toast it raised last
Outcome(calls, st, rejected) ==
    [extractions |-> Len(calls),
     rejected |-> rejected,
     values |-> IF rejected THEN << >> ELSE [k \in 1..Len(calls) |-> calls[k].value],
     undefs |-> Cardinality({k \in 1..Len(calls) :
                    calls[k].state = "resolved" /\ calls[k].value = Undefined}),
     added |-> Len(st.history) - Len(clipboardHistory),
     toast |-> st.raised]

NewCapture(kind, pc) ==
    [kind |-> kind, pc |-> pc, calls |-> << >>,
     outcome |-> Outcome(<< >>, ParserState, FALSE)]

\* the body shared by handlePaste and handleDrop: dt is Null or the event's
\* clipboardData / dataTransfer
HandleTransfer(kind, source, failTitle) ==
    /\ Len(caps) < MaxCaptures
    /\ \E dt \in {Null} \cup {Some(t) : t \in TransferSamples} :
        IF dt = Null THEN
            /\ caps' = Append(caps, NewCapture(kind, "done"))
            /\ UNCHANGED <<clipboardHistory, label, toasts, recorded, urls>>
        ELSE
            LET call == ExtractCall(dt[1], urls)
                c == Len(caps) + 1
                st == IF call.state = "rejected" THEN Toast(ParserState, failTitle)
                      ELSE AddToHistory(ParserState, call.value, source, clock)
            IN /\ caps' = Append(caps, [NewCapture(kind, "done") EXCEPT
                                           !.outcome = Outcome(<<call>>, st,
                                                           call.state = "rejected")])
               /\ urls' = urls + CallUrlCount(dt[1])
               /\ SetParser(st)
               /\ recorded' = recorded \o
                     (IF call.state = "rejected" THEN << >>
                      ELSE Log(c, ValidData(<<call.value>>), source, clock))
    /\ UNCHANGED <<libraryVars, ext, order, clock, fmt, copyVars>>

HandlePaste == HandleTransfer("paste", "clipboardData", "Failed to process paste")

HandleDrop == HandleTransfer("drop", "dataTransfer", "Failed to process drop")

\* the user clicks "Paste using the Clipboard API": handleAsyncPaste up to its
\* first await. The button is rendered while the history is empty.
HandleAsyncPaste ==
    /\ Len(caps) < MaxCaptures
    /\ clipboardHistory = << >>
    /\ caps' = Append(caps, NewCapture("read", "reading"))
    /\ UNCHANGED <<libraryVars, ext, order, urls, clipboardHistory, label, toasts, clock, recorded, fmt, copyVars>>

Rejected(calls) == \E k \in 1..Len(calls) : calls[k].state = "rejected"

\* a variant that raises no toast when no item yielded an entry
AfterExtractionSilent(st, calls) ==
    IF Rejected(calls) THEN Toast(st, "Failed to read clipboard")
    ELSE AddAll(st, ValidData([k \in 1..Len(calls) |-> calls[k].value]),
                "ClipboardItems", clock)

\* a variant that records the items already extracted before it reports the failure
AfterExtractionPartial(st, calls) ==
    LET extracted == [k \in 1..Len(calls) |->
                         IF calls[k].state = "resolved" THEN calls[k].value ELSE Undefined]
        validData == ValidData(extracted)
    IN IF Rejected(calls)
       THEN Toast(AddAll(st, validData, "ClipboardItems", clock), "Failed to read clipboard")
       ELSE IF Len(validData) > 0
       THEN AddAll(st, validData, "ClipboardItems", clock)
       ELSE Toast(st, "No valid clipboard data")

\* handleAsyncPaste after Promise.all over the calls settled (rejected: the
\* catch block): the component state it leaves
AfterExtraction(st, calls) ==
    IF Rejected(calls) THEN Toast(st, "Failed to read clipboard")
    ELSE
        LET validData == ValidData([k \in 1..Len(calls) |-> calls[k].value])
        IN IF Len(validData) > 0
           THEN AddAll(st, validData, "ClipboardItems", clock)
           ELSE Toast(st, "No valid clipboard data")

\* ghost: the entries that run of the handler recorded
ReadLog(c, calls) ==
    IF Rejected(calls) THEN << >>
    ELSE Log(c, ValidData([k \in 1..Len(calls) |-> calls[k].value]),
             "ClipboardItems", clock)

\* a finished handler keeps only the calls that still have an await pending
Pending(calls) ==
    IF \E k \in 1..Len(calls) : \E i \in 1..Len(calls[k].tasks) : TaskActive(calls[k], i)
    THEN calls ELSE << >>

CallsSettled(calls) ==
    \/ Rejected(calls)
    \/ \A k \in 1..Len(calls) : calls[k].state = "resolved"

\* the handler of capture c runs on after its Promise.all settled
FinishRead(c, calls) ==
    LET st == AfterExtraction(ParserState, calls)
    IN /\ caps' = [caps EXCEPT ![c].pc = "done", ![c].calls = Pending(calls),
                               ![c].outcome = Outcome(calls, st, Rejected(calls))]
       /\ SetParser(st)
       /\ recorded' = recorded \o ReadLog(c, calls)

\* navigator.clipboard.read() rejects: the catch block
ReadRejects ==
    /\ \E c \in 1..Len(caps) :
        /\ caps[c].pc = "reading"
        /\ LET st == Toast(ParserState, "Failed to read clipboard")
           IN /\ caps' = [caps EXCEPT ![c].pc = "done", ![c].outcome = Outcome(<< >>, st, TRUE)]
              /\ SetParser(st)
    /\ UNCHANGED <<libraryVars, ext, order, urls, clock, recorded, fmt, copyVars>>

\* navigator.clipboard.read() resolves: extractData is called on every item
ReadResolves ==
    /\ \E c \in 1..Len(caps), its \in ReadResults :
        /\ caps[c].pc = "reading"
        /\ LET calls == [k \in 1..Len(its) |-> ExtractCall(its[k], urls)]
           IN IF CallsSettled(calls) THEN FinishRead(c, calls)
              ELSE
                  /\ caps' = [caps EXCEPT ![c].pc = "extracting", ![c].calls = calls]
                  /\ UNCHANGED <<clipboardHistory, label, toasts, recorded>>
    /\ UNCHANGED <<libraryVars, ext, order, urls, clock, fmt, copyVars>>

\* an await inside one extractData call of a read resolves or rejects; when that
\* settles the handler's Promise.all, the rest of handleAsyncPaste runs
CaptureFetchStep ==
    /\ \E c \in 1..Len(caps) : \E k \in 1..Len(caps[c].calls) :
       \E i \in 1..Len(caps[c].calls[k].tasks) :
        /\ TaskActive(caps[c].calls[k], i)
        /\ LET calls == [caps[c].calls EXCEPT ![k] = StepCall(@, i, urls)]
           IN /\ urls' = urls + TaskUrlCount(caps[c].calls[k], i)
              /\ IF caps[c].pc = "extracting" /\ CallsSettled(calls) THEN
                     FinishRead(c, calls)
                 ELSE
                     /\ caps' = [caps EXCEPT ![c].calls =
                                    IF caps[c].pc = "done" THEN Pending(calls) ELSE calls]
                     /\ UNCHANGED <<clipboardHistory, label, toasts, recorded>>
    /\ UNCHANGED <<libraryVars, ext, order, clock, fmt, copyVars>>

\* a variant that releases the object URLs of the entries it drops
ClearHistoryRevoking ==
    /\ clipboardHistory # << >>
    /\ SetParser(Toast([ParserState EXCEPT !.history = << >>, !.label = ""], "Cleared"))
    /\ recorded' = << >>
    /\ urls' = 0
    /\ UNCHANGED <<libraryVars, ext, order, caps, clock, fmt, copyVars>>

\* the user clicks "Clear All", rendered while the history is not empty
ClearHistory ==
    /\ clipboardHistory # << >>
    /\ SetParser(Toast([ParserState EXCEPT !.history = << >>, !.label = ""], "Cleared"))
    /\ recorded' = << >>
    /\ UNCHANGED <<libraryVars, ext, order, urls, caps, clock, fmt, copyVars>>

\* a millisecond passes
Tick ==
    /\ clock < MaxClock
    /\ clock' = clock + 1
    /\ UNCHANGED <<libraryVars, ext, order, urls, clipboardHistory, label, toasts, caps, recorded, fmt, copyVars>>

NextHistory ==
    \/ HandlePaste
    \/ HandleDrop
    \/ HandleAsyncPaste
    \/ ReadRejects
    \/ ReadResolves
    \/ CaptureFetchStep
    \/ ClearHistory
    \/ Tick

SpecHistory == InitHistory /\ [][NextHistory]_vars

-----------------------------------------------------------------------------
(* Claims about the history buffer, under SpecHistory *)

\* C8: the history buffer holds exactly the entries recorded since the last
\* clear, the most recently recorded first: nothing is dropped, merged or
\* reordered, and a clear leaves it empty.
C8_HistoryIsRecordedNewestFirst ==
    /\ Len(clipboardHistory) = Len(recorded)
    /\ \A k \in 1..Len(recorded) :
          clipboardHistory[k] = recorded[Len(recorded) - k + 1].entry

\* two captures of different sources recorded, the later one at the head
C8_Witness ==
    /\ Len(clipboardHistory) = 2
    /\ clipboardHistory[1].source = "dataTransfer"
    /\ clipboardHistory[2].source = "ClipboardItems"

\* capture B was triggered after capture A and recorded its one entry before
\* A recorded its one entry
LaterResolvedFirst ==
    /\ Len(recorded) = 2
    /\ recorded[1].cap > recorded[2].cap
    /\ HasContent(recorded[1].entry.data) /\ HasContent(recorded[2].entry.data)

\* C9 as stated: when B, triggered after A, resolves before A, the buffer is [B, A].
C9_Original ==
    LaterResolvedFirst =>
        clipboardHistory = <<recorded[1].entry, recorded[2].entry>>

\* C9 amended: when B, triggered after A, resolves before A, the buffer is [A, B]:
\* A, recorded last, is at the head.
C9_LaterRecordedAtHead ==
    LaterResolvedFirst =>
        clipboardHistory = <<recorded[2].entry, recorded[1].entry>>

\* two explicit reads, the second resolved first, with different content
C9_Witness ==
    /\ LaterResolvedFirst
    /\ caps[1].kind = "read" /\ caps[2].kind = "read"
    /\ recorded[1].entry # recorded[2].entry
    /\ clipboardHistory[1] = recorded[2].entry


FailureTitles ==
    {"Failed to read clipboard", "Failed to process paste", "Failed to process drop"}

ErrorTitles == FailureTitles \cup {"No valid clipboard data"}

\* the handler of capture c has finished, an extraction of it yielded undefined
\* and none was rejected
YieldedUndefined(c) ==
    /\ caps[c].pc = "done"
    /\ caps[c].outcome.undefs > 0
    /\ caps[c].outcome.toast \notin FailureTitles

Finishes(c) ==
    /\ c \in 1..Len(caps')
    /\ caps'[c].pc = "done"
    /\ (c > Len(caps) \/ caps[c].pc # "done")

\* the entries of the values vals, recorded in this step
NewEntries(vals, source) ==
    [k \in 1..Len(vals) |-> [data |-> vals[k], source |-> source, timestamp |-> clock]]

\* C21: a capture whose extraction resolves to an entry is recorded when it
\* resolves, whatever was started, recorded or cleared while it was in flight:
\* the buffer grows by its entries and holds each of them.
C21_ResolvedIsRecorded ==
    [][\A c \in 1..Len(caps') :
          Finishes(c) =>
              LET vals == ValidData(caps'[c].outcome.values)
              IN /\ Len(clipboardHistory') = Len(clipboardHistory) + Len(vals)
                 /\ \A k \in 1..Len(vals) :
                       \E j \in 1..Len(vals) : clipboardHistory'[j].data = vals[k]]_vars

\* a read was started, a paste was recorded and the buffer cleared while the read
\* was in flight, and the read's entry was recorded when it resolved
C21_Witness ==
    /\ Len(caps) = 2
    /\ caps[1].kind = "read" /\ caps[1].pc = "done" /\ caps[1].outcome.added = 1
    /\ caps[2].kind = "paste" /\ caps[2].outcome.added = 1
    /\ Len(clipboardHistory) = 1
    /\ clipboardHistory[1].source = "ClipboardItems"

\* C22: no operation releases an object URL: the number of live URLs never
\* shrinks, also when the buffer holding their entries is cleared.
C22_HandlesNeverReleased ==
    [][urls' >= urls]_vars

\* entries with file descriptors were recorded and the buffer was cleared
C22_Witness ==
    /\ urls > 0
    /\ clipboardHistory = << >>
    /\ toasts = "Cleared"

\* C25: no two entries in the buffer have equal timestamps; stated for the
\* entries that one capture recorded.
C25_TimestampsUnique ==
    \A i, j \in 1..Len(recorded) :
        (i # j /\ recorded[i].cap = recorded[j].cap) =>
            recorded[i].entry.timestamp # recorded[j].entry.timestamp

\* C27: when the extraction or the platform read of a capture rejects, the buffer
\* and the label stay as they were and a failure notice is shown.
C27_RejectionLeavesHistory ==
    [][\A c \in 1..Len(caps') :
          (Finishes(c) /\ caps'[c].outcome.rejected) =>
              /\ clipboardHistory' = clipboardHistory
              /\ label' = label
              /\ toasts' \in FailureTitles]_vars

\* a read of a text item and a failing item was rejected after a paste had been
\* recorded: the paste is still the only entry
C27_Witness ==
    /\ Len(caps) = 2
    /\ caps[1].kind = "read" /\ caps[1].outcome.rejected
    /\ caps[1].outcome.extractions = 2
    /\ toasts = "Failed to read clipboard"
    /\ Len(clipboardHistory) = 1
    /\ label = "clipboardData"

\* C28: one read of several items records nothing before every item is
\* extracted; if an extraction rejects it records nothing, otherwise its entries
\* are put together at the head of the buffer, in the reverse of the item order.
C28_ReadRecordedTogether ==
    /\ [](\A c \in 1..Len(caps) :
            caps[c].pc # "done" =>
                \A k \in 1..Len(recorded) : recorded[k].cap # c)
    /\ [][\A c \in 1..Len(caps') :
            (Finishes(c) /\ caps'[c].kind = "read") =>
                LET new == NewEntries(ValidData(caps'[c].outcome.values), "ClipboardItems")
                    n == Len(new)
                IN clipboardHistory' =
                       [j \in 1..n |-> new[n - j + 1]] \o clipboardHistory]_vars

\* a read of a text item and an image item recorded both above the entry of a
\* paste: the image, read last, at the head
C28_Witness ==
    /\ Len(clipboardHistory) = 3
    /\ clipboardHistory[1].source = "ClipboardItems"
    /\ clipboardHistory[1].data.types[1].type = ImagePng
    /\ clipboardHistory[2].source = "ClipboardItems"
    /\ clipboardHistory[2].data.types[1].type = TextPlain
    /\ clipboardHistory[3].source = "clipboardData"

-----------------------------------------------------------------------------
(* copyToClipboard and the copy handler of ClipboardType *)

\* clicks on "Copy content" in one session
MaxCopies == 2

\* the platform at one call: the synchronous DOM step that throws, what
\* execCommand('copy') returns, which methods navigator.clipboard has
\* ("absent": navigator.clipboard is undefined), whether new ClipboardItem throws
CopyEnvs ==
    [throwAt : {"none", "appendChild", "select", "execCommand", "removeChild"},
     exec : BOOLEAN,
     api : {"absent", "textOnly", "writeOnly", "full"},
     itemThrows : BOOLEAN]

HasWrite(env) == env.api \in {"writeOnly", "full"}
HasWriteText(env) == env.api \in {"textOnly", "full"}

PlainOnly(content) == {[type |-> TextPlain, text |-> content]}
BothTypes(content) ==
    {[type |-> AppJson, text |-> content], [type |-> TextPlain, text |-> content]}

Attempt(strategy, ok) == [strategy |-> strategy, ok |-> ok]

\* the synchronous legacy path: whether it threw, the textarea and the listener it
\* left behind, whether copyHandler was registered when the copy command ran, what
\* the copy command put on the clipboard (Null: nothing), and whether the copy
\* command reported success
LegacyPath(content, isJson, env) ==
    IF env.throwAt = "appendChild" THEN
        [threw |-> TRUE, textArea |-> 0, listener |-> 0, handler |-> FALSE,
         wrote |-> Null, ok |-> FALSE]
    ELSE IF env.throwAt = "select" THEN
        [threw |-> TRUE, textArea |-> 1, listener |-> 0, handler |-> FALSE,
         wrote |-> Null, ok |-> FALSE]
    ELSE IF env.throwAt = "execCommand" THEN
        [threw |-> TRUE, textArea |-> 1, listener |-> IF isJson THEN 1 ELSE 0,
         handler |-> isJson, wrote |-> Null, ok |-> FALSE]
    ELSE
        \* removeChild throws NotFoundError when the textarea is no child of body
        [threw |-> env.throwAt = "removeChild", textArea |-> 0, listener |-> 0,
         handler |-> isJson,
         wrote |-> IF ~env.exec THEN Null
                   ELSE IF isJson THEN Some(BothTypes(content))
                   ELSE Some(PlainOnly(content)),
         ok |-> env.exec]

\* a variant that returns what the copy command reported when there is no
\* navigator.clipboard
StartCopyExecResult(content, isJson, env) ==
    LET leg == LegacyPath(content, isJson, env)
        call == [pc |-> "done", content |-> content, isJson |-> isJson, env |-> env,
                 legacy |-> leg,
                 attempts |-> <<Attempt("legacy", leg.ok)>>, modernOp |-> "none",
                 result |-> FALSE]
    IN IF leg.threw THEN
           IF HasWriteText(env) THEN [call EXCEPT !.pc = "awaitFinal"]
           ELSE [call EXCEPT !.attempts = Append(@, Attempt("final", FALSE))]
       ELSE IF env.api = "absent" THEN [call EXCEPT !.result = leg.ok]
       ELSE IF isJson /\ HasWrite(env) THEN
           IF env.itemThrows
           THEN [call EXCEPT !.attempts = Append(@, Attempt("modern", FALSE)),
                             !.result = TRUE]
           ELSE [call EXCEPT !.pc = "awaitWrite", !.modernOp = "write"]
       ELSE IF HasWriteText(env) THEN
           [call EXCEPT !.pc = "awaitWriteText", !.modernOp = "writeText"]
       ELSE [call EXCEPT !.result = TRUE]

\* copyToClipboard(content, isJson) up to its first await or its return;
\* modernOp is the method of navigator.clipboard the modern path invoked
StartCopy(content, isJson, env) ==
    LET leg == LegacyPath(content, isJson, env)
        call == [pc |-> "done", content |-> content, isJson |-> isJson, env |-> env,
                 legacy |-> leg,
                 attempts |-> <<Attempt("legacy", leg.ok)>>, modernOp |-> "none",
                 result |-> FALSE]
    IN IF leg.threw THEN
           \* catch (error): await navigator.clipboard.writeText(content)
           IF HasWriteText(env) THEN [call EXCEPT !.pc = "awaitFinal"]
           ELSE [call EXCEPT !.attempts = Append(@, Attempt("final", FALSE))]
       ELSE IF env.api = "absent" THEN [call EXCEPT !.result = TRUE]
       ELSE IF isJson /\ HasWrite(env) THEN
           IF env.itemThrows
           THEN [call EXCEPT !.attempts = Append(@, Attempt("modern", FALSE)),
                             !.result = TRUE]
           ELSE [call EXCEPT !.pc = "awaitWrite", !.modernOp = "write"]
       ELSE IF HasWriteText(env) THEN
           [call EXCEPT !.pc = "awaitWriteText", !.modernOp = "writeText"]
       ELSE [call EXCEPT !.result = TRUE]

\* the pending asynchronous write of the call resolves (ok) or rejects
SettleCopy(call, ok) ==
    IF call.pc = "awaitFinal" THEN
        [call EXCEPT !.pc = "done", !.attempts = Append(@, Attempt("final", ok)),
                     !.result = ok]
    ELSE
        [call EXCEPT !.pc = "done", !.attempts = Append(@, Attempt("modern", ok)),
                     !.result = TRUE]

\* what a resolved asynchronous write put on the clipboard
AsyncWrote(call) ==
    IF call.pc = "awaitWrite" THEN BothTypes(call.content) ELSE PlainOnly(call.content)

\* type.includes('json'), on the MIME types of the model
TypeIncludesJson(type) == type[1] = "json" \/ type[2] = "json"

\* useState<string>(typeof data === 'string' ? data : '')
InitialContent(data) == IF data.kind = "string" THEN data ELSE StringData(<< >>)

ViewTypes == {TextPlain, TextHtml, AppJson, ImagePng}

ViewData ==
    {StringData(Hello), StringData(<<"[", "1", "]">>), StringData(<< >>),
     FileData(CreateFileInfo([name |-> "a.png", size |-> 3, type |-> ImagePng], 1))}

InitCopy ==
    /\ ext = NoCall
    /\ order = << >>
    /\ urls = 0
    /\ clipboardHistory = << >>
    /\ label = ""
    /\ toasts = ""
    /\ caps = << >>
    /\ clock = 0
    /\ recorded = << >>
    /\ fmt = NoFormat
    /\ cp = NoCopy
    /\ clipboard = {}
    /\ textAreas = 0
    /\ copyListeners = 0
    /\ copies = 0
    /\ LibraryIdle
    /\ \E type \in ViewTypes, data \in ViewData :
          view = [NoView EXCEPT !.type = type, !.data = data,
                                !.content = InitialContent(data)]

\* copyToClipboardHandler after await copyToClipboard(...)
AfterCopy(success) ==
    IF success THEN
        /\ view' = [view EXCEPT !.copied = TRUE]
        /\ toasts' = "Copied to clipboard"
    ELSE
        /\ toasts' = "Copy failed"
        /\ UNCHANGED view

\* the user clicks "Copy content": copyToClipboardHandler up to its first
\* suspension. One call is in flight at a time.
CopyClickIn(envs) ==
    /\ cp.pc \in {"idle", "done"}
    /\ copies < MaxCopies
    /\ copies' = copies + 1
    /\ IF view.content.kind # "string" THEN
           /\ toasts' = "Cannot copy file data"
           /\ UNCHANGED <<view, cp, clipboard, textAreas, copyListeners>>
       ELSE
           \E env \in envs :
               LET content == view.content.text
                   isJson == \/ TypeIncludesJson(view.type)
                             \/ (view.type = TextPlain /\ IsValidJson(content))
                   leg == LegacyPath(content, isJson, env)
                   call == StartCopy(content, isJson, env)
               IN /\ cp' = call
                  /\ textAreas' = textAreas + leg.textArea
                  /\ copyListeners' = copyListeners + leg.listener
                  /\ clipboard' = IF leg.wrote = Null THEN clipboard ELSE leg.wrote[1]
                  /\ IF call.pc = "done" THEN AfterCopy(call.result)
                     ELSE UNCHANGED <<view, toasts>>
    /\ UNCHANGED <<libraryVars, ext, order, urls, clipboardHistory, label, caps, clock, recorded, fmt>>

\* a click in any browser environment
CopyClick == CopyClickIn(CopyEnvs)

\* the asynchronous write awaited by copyToClipboard resolves or rejects, and the
\* handler runs on
CopySettles ==
    /\ cp.pc \in {"awaitWrite", "awaitWriteText", "awaitFinal"}
    /\ \E ok \in BOOLEAN :
        /\ cp' = SettleCopy(cp, ok)
        /\ clipboard' = IF ok THEN AsyncWrote(cp) ELSE clipboard
        /\ AfterCopy(cp'.result)
    /\ UNCHANGED <<libraryVars, ext, order, urls, clipboardHistory, label, caps, clock, recorded, fmt,
                   textAreas, copyListeners, copies>>

\* setTimeout(() => setCopied(false), 2000)
CopiedTimeout ==
    /\ view.copied
    /\ view' = [view EXCEPT !.copied = FALSE]
    /\ UNCHANGED <<libraryVars, ext, order, urls, clipboardHistory, label, toasts, caps, clock, recorded,
                   fmt, cp, clipboard, textAreas, copyListeners, copies>>

NextCopy == CopyClick \/ CopySettles \/ CopiedTimeout

SpecCopy == InitCopy /\ [][NextCopy]_vars

-----------------------------------------------------------------------------
(* Claims about copyToClipboard, under SpecCopy *)

SomeStrategySucceeded == \E k \in 1..Len(cp.attempts) : cp.attempts[k].ok

\* C1: copyToClipboard resolves to true exactly when one of its write strategies
\* reported success and to false exactly when all failed, and "Copy failed" is
\* shown only when all failed.
C1_TrueIffSomeStrategySucceeded ==
    (cp.pc = "done" /\ view.data.kind = "string" /\ cp.content # << >>) =>
        /\ cp.result = SomeStrategySucceeded
        /\ (toasts = "Copy failed" => ~SomeStrategySucceeded)

\* C2: a copy of a payload that is a FileDescriptor is refused: copyToClipboard
\* does not report success, no strategy writes to the clipboard, nothing is thrown.
C2_FilePayloadRefused ==
    view.data.kind = "file" =>
        /\ ~(cp.pc = "done" /\ cp.result)
        /\ clipboard = {}
        /\ toasts # "Copied to clipboard"

\* C13: copyToClipboard with a string content and isJson false resolves to true
\* whenever the legacy path runs through, also when navigator.clipboard is absent,
\* and then no asynchronous write is attempted.
C13_PlainCopyTrueWithLegacyOnly ==
    (cp.pc = "done" /\ ~cp.isJson /\ ~cp.legacy.threw) =>
        /\ cp.result
        /\ (cp.env.api = "absent" =>
               /\ cp.modernOp = "none"
               /\ cp.attempts = <<Attempt("legacy", cp.legacy.ok)>>)

\* "hello" copied as plain text through the copy command alone, without
\* navigator.clipboard
C13_Witness ==
    /\ cp.pc = "done" /\ ~cp.isJson /\ cp.content = Hello
    /\ cp.env.api = "absent" /\ cp.env.throwAt = "none"
    /\ cp.result
    /\ clipboard = PlainOnly(Hello)

\* a call with a non-empty text has completed
TextCopyDone == cp.pc = "done" /\ view.data.kind = "string" /\ cp.content # << >>

\* C16: when copyToClipboard has completed, whatever its outcome, the off-screen
\* textarea is no longer attached to the document and copyHandler is no longer
\* registered.
C16_CleanedUpOnCompletion ==
    TextCopyDone => (textAreas = 0 /\ copyListeners = 0)

ModernFailed ==
    \E k \in 1..Len(cp.attempts) :
        cp.attempts[k].strategy = "modern" /\ ~cp.attempts[k].ok

ModernSucceeded ==
    \E k \in 1..Len(cp.attempts) :
        cp.attempts[k].strategy = "modern" /\ cp.attempts[k].ok

FinalAttempts == {k \in 1..Len(cp.attempts) : cp.attempts[k].strategy = "final"}

\* C17: if both the legacy path and the modern path fail or throw, exactly one
\* further attempt is made with the plain-text asynchronous write, and the result
\* is that attempt's outcome.
C17_FinalAttemptAfterBothFail ==
    (TextCopyDone /\ ~cp.legacy.ok /\ ModernFailed) =>
        /\ Cardinality(FinalAttempts) = 1
        /\ \A k \in FinalAttempts : cp.result = cp.attempts[k].ok

\* C18: when navigator.clipboard offers both write and writeText, the legacy path
\* is attempted first and the modern path after it, whether the legacy attempt
\* succeeded, failed or threw.
C18_ModernFollowsLegacy ==
    (TextCopyDone /\ cp.env.api = "full") =>
        /\ cp.attempts[1].strategy = "legacy"
        /\ \E k \in 2..Len(cp.attempts) : cp.attempts[k].strategy = "modern"

\* C19: when isJson is true the copy command's payload receives exactly text/plain
\* and application/json, both equal to content, and copyHandler is registered only
\* while that copy command runs; when isJson is false no handler is registered.
C19_HandlerOnlyDuringCopyCommand ==
    (cp.pc # "idle" /\ cp.content # << >>) =>
        /\ (cp.isJson /\ cp.legacy.wrote # Null =>
               cp.legacy.wrote[1] = BothTypes(cp.content))
        /\ (cp.legacy.handler => cp.isJson)
        /\ copyListeners = 0

\* C20: the modern path calls a method of navigator.clipboard only when it is
\* present; with isJson true it writes one payload with both text/plain and
\* application/json, with isJson false it writes plain text only; its failure
\* never changes the result the legacy path determined.
C20_ModernPathPayload ==
    (TextCopyDone /\ ~cp.legacy.threw) =>
        /\ (cp.modernOp = "write" => HasWrite(cp.env))
        /\ (cp.modernOp = "writeText" => HasWriteText(cp.env))
        /\ (cp.modernOp # "none" => cp.modernOp = IF cp.isJson THEN "write" ELSE "writeText")
        /\ (cp.isJson /\ ModernSucceeded => clipboard = BothTypes(cp.content))
        /\ (~cp.isJson /\ ModernSucceeded => clipboard = PlainOnly(cp.content))
        /\ cp.result

-----------------------------------------------------------------------------
(* SpecFormat: formatContent applied to a text, and again to its result *)

\* longest text over FormatAlphabet that is tried
MaxLen == 4

FormatAlphabet == {"[", "]", ",", " ", "0", "1", "-", Quote}

NotJson == <<"n", "o", "t", " ", "j", "s", "o", "n">>

\* longer texts: objects, repeated and numeric keys, escapes, literals, nesting
SampleTexts ==
    {<<"{", Quote, "a", Quote, ":", "1", ",", Quote, "a", Quote, ":", "2", "}">>,
     <<"{", Quote, "b", Quote, ":", "1", ",", " ", Quote, "1", Quote, ":", "[", "]", "}">>,
     <<Quote, Backslash, Backslash, "n", Quote>>,
     <<Quote, Backslash, "/", Backslash, "n", Quote>>,
     <<"[", "n", "u", "l", "l", ",", "t", "r", "u", "e", ",", "[", "-", "0", "]", "]">>,
     <<"{", Quote, "k", Quote, ":", "{", Quote, "j", Quote, ":", "[", "1", "0", "]", "}", "}">>,
     NotJson,
     <<"{", "a", ":", "1", "}">>,
     <<"[", LF, " ", " ", "1", LF, "]">>,
     Hello, BoldHello}

FormatTexts == SeqsUpTo(FormatAlphabet, MaxLen) \cup SampleTexts

InitFormat ==
    /\ ext = NoCall
    /\ order = << >>
    /\ urls = 0
    /\ clipboardHistory = << >>
    /\ label = ""
    /\ toasts = ""
    /\ caps = << >>
    /\ clock = 0
    /\ recorded = << >>
    /\ CopyIdle
    /\ LibraryIdle
    /\ \E text \in FormatTexts, type \in {TextPlain, TextHtml, AppJson} :
          fmt = [pc |-> "text", text |-> text, type |-> type,
                 valid |-> Null, once |-> << >>, twice |-> << >>]

\* formatContent(text, type)
FormatOnce ==
    /\ fmt.pc = "text"
    /\ fmt' = [fmt EXCEPT !.pc = "once", !.once = FormatContent(fmt.text, fmt.type)]
    /\ UNCHANGED <<libraryVars, ext, order, urls, clipboardHistory, label, toasts, caps, clock, recorded,
                   copyVars>>

\* formatContent(formatContent(text, type), type)
FormatTwice ==
    /\ fmt.pc = "once"
    /\ fmt' = [fmt EXCEPT !.pc = "twice", !.twice = FormatContent(fmt.once, fmt.type)]
    /\ UNCHANGED <<libraryVars, ext, order, urls, clipboardHistory, label, toasts, caps, clock, recorded,
                   copyVars>>

\* isValidJson(text)
ValidateText ==
    /\ fmt.pc = "text"
    /\ fmt.valid = Null
    /\ fmt' = [fmt EXCEPT !.valid = Some(IsValidJson(fmt.text))]
    /\ UNCHANGED <<libraryVars, ext, order, urls, clipboardHistory, label, toasts, caps, clock, recorded,
                   copyVars>>

NextFormat == FormatOnce \/ FormatTwice \/ ValidateText

SpecFormat == InitFormat /\ [][NextFormat]_vars

-----------------------------------------------------------------------------
(* Claims about formatContent, under SpecFormat *)

\* C10: formatContent is idempotent on text/plain: applying it to its own result
\* gives that result again.
C10_FormatIdempotent ==
    (fmt.pc = "twice" /\ fmt.type = TextPlain) => fmt.twice = fmt.once

\* a valid JSON text that the first application rewrote
C10_Witness ==
    /\ fmt.pc = "twice" /\ fmt.type = TextPlain
    /\ IsValidJson(fmt.text)
    /\ fmt.once # fmt.text
    /\ fmt.twice = fmt.once

\* C11: formatContent returns the 2-space-indented serialization of the parsed
\* value exactly when the type is text/plain and the text parses as JSON; for every
\* other type, application/json included, and for every text that does not parse
\* it returns the text unchanged.
C11_FormatsOnlyPlainTextJson ==
    fmt.pc \in {"once", "twice"} =>
        LET r == JsonParse(fmt.text)
        IN fmt.once = IF fmt.type = TextPlain /\ r.ok THEN Stringify(r.v, 0) ELSE fmt.text

\* a JSON array of type application/json is returned as it is, although its
\* serialization differs from it
C11_Witness ==
    /\ fmt.pc = "once"
    /\ fmt.type = AppJson
    /\ fmt.text = <<"[", "1", "]">>
    /\ fmt.once = fmt.text
    /\ FormatJson(fmt.text) = <<"[", LF, " ", " ", "1", LF, "]">>

\* C12: isValidJson returns true exactly for the texts JSON.parse accepts, and
\* returns false, raising nothing, for every other text, "not json" among them.
C12_ValidIffParses ==
    fmt.valid # Null =>
        /\ fmt.valid[1] \in BOOLEAN
        /\ fmt.valid[1] = JsonParse(fmt.text).ok
        /\ (fmt.text = NotJson => fmt.valid[1] = FALSE)

\* a text that begins with a JSON value and does not parse was judged invalid
C12_Witness ==
    /\ fmt.valid = Some(FALSE)
    /\ fmt.text = <<"1", " ", "]">>

-----------------------------------------------------------------------------
(* Library deletion: LibraryManager and the library settings dialog *)

\* ids of the libraries the user owns at the start
Libraries == 1..MaxLibraries

\* supabase: delete from shared_library_permissions where library_id = id
DeleteSharedPermissions(l, id) == [l EXCEPT !.perms = @ \ {id}]

\* supabase: update shared_clipboard_items set library_id = null where library_id = id
DisassociateItems(l, id) == [l EXCEPT !.items = @ \ {id}]

\* supabase: delete from user_libraries where id = id
DeleteLibraryRecord(l, id) == [l EXCEPT !.owned = @ \ {id}]

\* the user owns one to MaxLibraries libraries; some are shared, some hold items
InitLibrary ==
    /\ ext = NoCall
    /\ order = << >>
    /\ urls = 0
    /\ HistoryIdle
    /\ sv = NoSave
    /\ \E owned \in (SUBSET Libraries) \ {{}} :
          \E perms \in SUBSET owned, items \in SUBSET owned :
             lib = [NoLibraries EXCEPT !.owned = owned, !.perms = perms, !.items = items]

\* LibraryManager opens: the effect runs fetchLibraries, which loads the
\* libraries the user created
OpenManager ==
    /\ lib.ui = "none"
    /\ lib' = [lib EXCEPT !.ui = "manager", !.libraries = lib.owned]
    /\ UNCHANGED <<parserVars, sv>>

\* the manager dialog is closed
CloseManager ==
    /\ lib.ui = "manager"
    /\ lib.mgr.pc = "idle"
    /\ ~lib.mgr.deleteDialogOpen
    /\ lib' = [lib EXCEPT !.ui = "none"]
    /\ UNCHANGED <<parserVars, sv>>

\* LibraryManager.openDeleteConfirmation(id)
OpenDeleteConfirmation ==
    /\ lib.ui = "manager"
    /\ lib.mgr.pc = "idle"
    /\ ~lib.mgr.deleteDialogOpen
    /\ \E id \in lib.libraries :
          lib' = [lib EXCEPT !.mgr.libraryToDelete = Some(id),
                             !.mgr.deleteConfirmText = "",
                             !.mgr.deleteDialogOpen = TRUE]
    /\ UNCHANGED <<parserVars, sv>>

\* the user types DELETE into the manager's confirmation field
TypeDeleteConfirmText ==
    /\ lib.ui = "manager"
    /\ lib.mgr.deleteDialogOpen
    /\ lib.mgr.pc = "idle"
    /\ lib.mgr.deleteConfirmText # "DELETE"
    /\ lib' = [lib EXCEPT !.mgr.deleteConfirmText = "DELETE"]
    /\ UNCHANGED <<parserVars, sv>>

\* the finally block of LibraryManager.handleDeleteLibrary
ManagerFinally(l) ==
    [l EXCEPT !.mgr.deletingLibrary = FALSE,
              !.mgr.deleteDialogOpen = FALSE,
              !.mgr.libraryToDelete = Null,
              !.mgr.deleteConfirmText = "",
              !.mgr.pc = "idle"]

\* LibraryManager.handleDeleteLibrary up to its first await: the guards, then
\* setDeletingLibrary(true)
ManagerHandleDeleteLibrary(l) ==
    IF l.mgr.libraryToDelete = Null
    THEN [l EXCEPT !.mgr.deleteDialogOpen = FALSE]
    ELSE IF Cardinality(l.libraries) <= 1
         THEN [l EXCEPT !.toast = "Cannot delete library",
                        !.mgr.deleteDialogOpen = FALSE]
         ELSE [l EXCEPT !.mgr.deletingLibrary = TRUE,
                        !.mgr.pc = "perms",
                        !.mgr.steps = << >>]

\* the manager's three awaited steps executed one after the other whatever the
\* answers
ManagerStepIgnoringErrors(l, ok) ==
    LET id == l.mgr.libraryToDelete[1]
        logged == [l EXCEPT !.mgr.steps = Append(@, [step |-> l.mgr.pc, ok |-> ok])]
    IN  CASE l.mgr.pc = "perms" ->
               [DeleteSharedPermissions(logged, id) EXCEPT !.mgr.pc = "items"]
          [] l.mgr.pc = "items" ->
               [DisassociateItems(logged, id) EXCEPT !.mgr.pc = "library"]
          [] OTHER ->
               ManagerFinally([DeleteLibraryRecord(logged, id) EXCEPT
                                  !.libraries = @ \ {id},
                                  !.toast = "Library deleted"])

\* LibraryManager.handleDeleteLibrary from one await to the next: the awaited
\* request answers with or without an error; an error is thrown to the catch
\* block, and the finally block runs when the handler ends
ManagerStep(l, ok) ==
    LET id == l.mgr.libraryToDelete[1]
        logged == [l EXCEPT !.mgr.steps = Append(@, [step |-> l.mgr.pc, ok |-> ok])]
    IN  IF ~ok
        THEN ManagerFinally([logged EXCEPT !.toast = "Error deleting library"])
        ELSE CASE l.mgr.pc = "perms" ->
                    [DeleteSharedPermissions(logged, id) EXCEPT !.mgr.pc = "items"]
               [] l.mgr.pc = "items" ->
                    [DisassociateItems(logged, id) EXCEPT !.mgr.pc = "library"]
               [] OTHER ->
                    ManagerFinally([DeleteLibraryRecord(logged, id) EXCEPT
                                       !.libraries = @ \ {id},
                                       !.toast = "Library deleted"])

\* click on the manager's confirm button, enabled when the text is DELETE and
\* no deletion is running
ManagerDeleteClick ==
    /\ lib.ui = "manager"
    /\ lib.mgr.deleteDialogOpen
    /\ lib.mgr.deleteConfirmText = "DELETE"
    /\ ~lib.mgr.deletingLibrary
    /\ lib.mgr.pc = "idle"
    /\ lib' = ManagerHandleDeleteLibrary(lib)
    /\ UNCHANGED <<parserVars, sv>>

\* one awaited request of the manager's deletion answers
ManagerDeleteStep ==
    /\ lib.mgr.pc # "idle"
    /\ \E ok \in BOOLEAN : lib' = ManagerStep(lib, ok)
    /\ UNCHANGED <<parserVars, sv>>

\* LibrarySettingsManager opens for a library of the user's own
OpenSettings ==
    /\ lib.ui = "none"
    /\ \E id \in lib.owned :
          lib' = [lib EXCEPT !.ui = "settings", !.dlg.library = Some(id)]
    /\ UNCHANGED <<parserVars, sv>>

\* the settings dialog is closed
CloseSettings ==
    /\ lib.ui = "settings"
    /\ lib.dlg.pc = "idle"
    /\ ~lib.dlg.showDeleteConfirmDialog
    /\ lib' = [lib EXCEPT !.ui = "none"]
    /\ UNCHANGED <<parserVars, sv>>

\* click on "Delete Library" in the danger zone: setShowDeleteConfirmDialog(true)
ShowDeleteConfirmDialog ==
    /\ lib.ui = "settings"
    /\ lib.dlg.pc = "idle"
    /\ ~lib.dlg.showDeleteConfirmDialog
    /\ lib' = [lib EXCEPT !.dlg.showDeleteConfirmDialog = TRUE]
    /\ UNCHANGED <<parserVars, sv>>

\* the user types DELETE into the settings dialog's confirmation field
TypeDeleteLibraryText ==
    /\ lib.ui = "settings"
    /\ lib.dlg.showDeleteConfirmDialog
    /\ lib.dlg.pc = "idle"
    /\ lib.dlg.deleteLibraryText # "DELETE"
    /\ lib' = [lib EXCEPT !.dlg.deleteLibraryText = "DELETE"]
    /\ UNCHANGED <<parserVars, sv>>

\* the finally block of useLibrarySettings.handleDeleteLibrary
SettingsFinally(l) ==
    [l EXCEPT !.dlg.deleting = FALSE,
              !.dlg.showDeleteConfirmDialog = FALSE,
              !.dlg.deleteLibraryText = "",
              !.dlg.pc = "idle"]

\* useLibrarySettings.handleDeleteLibrary up to its first await
SettingsHandleDeleteLibrary(l) ==
    IF l.dlg.library = Null \/ l.dlg.deleteLibraryText # "DELETE"
    THEN l
    ELSE [l EXCEPT !.dlg.deleting = TRUE, !.dlg.pc = "perms", !.dlg.steps = << >>]

\* useLibrarySettings.handleDeleteLibrary from one await to the next; after
\* the last one onLibraryDeleted and onClose are called
SettingsStep(l, ok) ==
    LET id == l.dlg.library[1]
        logged == [l EXCEPT !.dlg.steps = Append(@, [step |-> l.dlg.pc, ok |-> ok])]
    IN  IF ~ok
        THEN SettingsFinally([logged EXCEPT !.toast = "Error deleting library"])
        ELSE CASE l.dlg.pc = "perms" ->
                    [DeleteSharedPermissions(logged, id) EXCEPT !.dlg.pc = "items"]
               [] l.dlg.pc = "items" ->
                    [DisassociateItems(logged, id) EXCEPT !.dlg.pc = "library"]
               [] OTHER ->
                    SettingsFinally([DeleteLibraryRecord(logged, id) EXCEPT
                                        !.toast = "Library deleted",
                                        !.ui = "none"])

\* click on the confirm button of DeleteLibraryDialog, enabled when the text is
\* DELETE and no deletion is running
SettingsDeleteClick ==
    /\ lib.ui = "settings"
    /\ lib.dlg.showDeleteConfirmDialog
    /\ lib.dlg.deleteLibraryText = "DELETE"
    /\ ~lib.dlg.deleting
    /\ lib.dlg.pc = "idle"
    /\ lib' = SettingsHandleDeleteLibrary(lib)
    /\ UNCHANGED <<parserVars, sv>>

\* one awaited request of the settings dialog's deletion answers
SettingsDeleteStep ==
    /\ lib.dlg.pc # "idle"
    /\ \E ok \in BOOLEAN : lib' = SettingsStep(lib, ok)
    /\ UNCHANGED <<parserVars, sv>>

NextLibrary ==
    \/ OpenManager
    \/ CloseManager
    \/ OpenDeleteConfirmation
    \/ TypeDeleteConfirmText
    \/ ManagerDeleteClick
    \/ ManagerDeleteStep
    \/ OpenSettings
    \/ CloseSettings
    \/ ShowDeleteConfirmDialog
    \/ TypeDeleteLibraryText
    \/ SettingsDeleteClick
    \/ SettingsDeleteStep

SpecLibrary == InitLibrary /\ [][NextLibrary]_vars

-----------------------------------------------------------------------------
(* Claims about library deletion *)

\* the three requests of a deletion, in the order the handlers make them
DeletionSteps == <<"perms", "items", "library">>

\* a log of executed requests follows DeletionSteps and stops at the first error
OrderedSteps(steps) ==
    /\ Len(steps) <= Len(DeletionSteps)
    /\ \A k \in 1..Len(steps) :
          /\ steps[k].step = DeletionSteps[k]
          /\ (k < Len(steps) => steps[k].ok)

\* all three requests were executed and answered without an error
Completed(steps) ==
    /\ Len(steps) = Len(DeletionSteps)
    /\ steps[Len(steps)].ok

ManagerReset(m) ==
    /\ ~m.deletingLibrary
    /\ ~m.deleteDialogOpen
    /\ m.deleteConfirmText = ""

SettingsReset(d) ==
    /\ ~d.deleting
    /\ ~d.showDeleteConfirmDialog
    /\ d.deleteLibraryText = ""

\* C26: a user who owns a library at the start owns at least one library after
\* any sequence of deletions made through the manager or the settings dialog
C26_KeepsOneLibrary == lib.owned # {}

\* C30: the requests of a deletion run in the order permissions, items,
\* library record and stop at the first error; the library record goes away
\* exactly when all three succeeded; when a deletion ends, the deleting flag,
\* the confirmation text and the confirmation dialog are reset
C30_DeletionOrderedAndReset ==
    [][/\ OrderedSteps(lib'.mgr.steps)
       /\ OrderedSteps(lib'.dlg.steps)
       /\ (lib.mgr.pc # "idle" /\ lib'.mgr.pc = "idle") =>
             /\ ManagerReset(lib'.mgr)
             /\ (lib.mgr.libraryToDelete[1] \in lib'.owned) = ~Completed(lib'.mgr.steps)
       /\ (lib.dlg.pc # "idle" /\ lib'.dlg.pc = "idle") =>
             /\ SettingsReset(lib'.dlg)
             /\ (lib.dlg.library[1] \in lib'.owned) = ~Completed(lib'.dlg.steps)
       /\ (lib'.owned # lib.owned) =>
             \/ /\ lib.mgr.pc = "library"
                /\ Completed(lib'.mgr.steps)
                /\ lib'.owned = lib.owned \ {lib.mgr.libraryToDelete[1]}
                /\ lib.mgr.libraryToDelete[1] \notin lib.perms \cup lib.items
             \/ /\ lib.dlg.pc = "library"
                /\ Completed(lib'.dlg.steps)
                /\ lib'.owned = lib.owned \ {lib.dlg.library[1]}
                /\ lib.dlg.library[1] \notin lib.perms \cup lib.items]_vars

\* a manager deletion stopped at a failed item update and a settings deletion
\* ran to the end, both leaving their confirmation state reset
C30_Witness ==
    /\ Len(lib.mgr.steps) = 2
    /\ ~lib.mgr.steps[2].ok
    /\ lib.mgr.pc = "idle"
    /\ ManagerReset(lib.mgr)
    /\ Completed(lib.dlg.steps)
    /\ lib.dlg.pc = "idle"
    /\ SettingsReset(lib.dlg)
    /\ Cardinality(lib.owned) = 1

-----------------------------------------------------------------------------
(* Saving into a library: SaveClipboardItem *)

\* a library of the user's own: no shared_by, a user_libraries row of the user
OwnLibrary == [id |-> 1, shared_by |-> FALSE, own |-> TRUE, permission |-> Null]

\* a library shared with the user, with a permission row that allows editing
SharedEditable == [id |-> 2, shared_by |-> TRUE, own |-> FALSE, permission |-> Some(TRUE)]

\* a library shared with the user, with a permission row that forbids editing
SharedReadOnly == [id |-> 3, shared_by |-> TRUE, own |-> FALSE, permission |-> Some(FALSE)]

\* the libraries LibrarySelector offers
SaveLibraries == {OwnLibrary, SharedEditable, SharedReadOnly}

LibraryOf(id) == CHOOSE l \in SaveLibraries : l.id = id

\* how an awaited query ends: the server's answer, an error in the answer, or
\* a rejected promise
QueryResults == {"answer", "error", "throw"}

\* the form is mounted: no library selected, hasEditPermission false
InitSave ==
    /\ ext = NoCall
    /\ order = << >>
    /\ urls = 0
    /\ HistoryIdle
    /\ LibraryIdle

\* the checks in flight without the k-th
WithoutCheck(checks, k) == SubSeq(checks, 1, k - 1) \o SubSeq(checks, k + 1, Len(checks))

\* checkLibraryPermissions ends with setHasEditPermission(value)
EndCheck(s, k, value) ==
    [s EXCEPT !.hasEditPermission = value, !.checks = WithoutCheck(@, k)]

\* checkLibraryPermissions(libraryId) from one await to the next
CheckLibraryPermissions(s, k, result) ==
    LET check == s.checks[k]
        library == LibraryOf(check.libraryId)
    IN  IF result = "throw"
        THEN EndCheck(s, k, FALSE)
        ELSE IF check.pc = "own"
             THEN IF result = "answer" /\ library.own
                  THEN EndCheck(s, k, TRUE)
                  ELSE [s EXCEPT !.checks[k].pc = "permission"]
             ELSE IF result = "answer" /\ library.permission # Null
                  THEN EndCheck(s, k, library.permission[1])
                  ELSE EndCheck(s, k, FALSE)

\* handleLibraryChange(library), then the effect on selectedLibrary starts
\* checkLibraryPermissions(library.id)
SelectLibrary ==
    /\ sv.selections < MaxSelections
    /\ ~sv.isSaving
    /\ \E library \in SaveLibraries :
          /\ sv.selectedLibrary # Some(library)
          /\ sv' = [sv EXCEPT !.selectedLibrary = Some(library),
                              !.selections = @ + 1,
                              !.checks = Append(@, [libraryId |-> library.id, pc |-> "own"])]
    /\ UNCHANGED <<parserVars, lib>>

\* one awaited query of a permission check ends
CheckAnswers ==
    /\ \E k \in 1..Len(sv.checks), result \in QueryResults :
          sv' = CheckLibraryPermissions(sv, k, result)
    /\ UNCHANGED <<parserVars, lib>>

\* saveToSupabase(values) for a signed-in user, up to the insert of the content
\* prop into the selected library
SaveToSupabase(s, content) ==
    IF s.selectedLibrary = Null
    THEN [s EXCEPT !.toast = "No library selected"]
    ELSE IF s.selectedLibrary[1].shared_by /\ ~s.hasEditPermission
         THEN [s EXCEPT !.toast = "Permission denied"]
         ELSE [s EXCEPT !.isSaving = TRUE,
                        !.inserts = Append(@, [library |-> s.selectedLibrary[1],
                                               content |-> content])]

\* the form is submitted with a valid title
SubmitSave ==
    /\ Len(sv.inserts) < MaxSaves
    /\ ~sv.isSaving
    /\ sv' = SaveToSupabase(sv, view.content.text)
    /\ UNCHANGED <<parserVars, lib>>

\* the insert answers: the toast, then setIsSaving(false) in finally
SaveSettles ==
    /\ sv.isSaving
    /\ \E ok \in BOOLEAN :
          sv' = [sv EXCEPT !.isSaving = FALSE,
                           !.toast = IF ok THEN "Item saved" ELSE "Error saving item"]
    /\ UNCHANGED <<parserVars, lib>>

NextSave == SelectLibrary \/ CheckAnswers \/ SubmitSave \/ SaveSettles

SpecSave == InitSave /\ [][NextSave]_vars

-----------------------------------------------------------------------------
(* Claims about the save form *)

\* the user may add items to the library
MayEdit(library) == library.own \/ library.permission = Some(TRUE)

\* C29: a save into a shared library is accepted only when the user may edit
\* the library that is selected at that moment
C29_AcceptedSaveMayEdit ==
    \A k \in 1..Len(sv.inserts) :
       sv.inserts[k].library.shared_by => MayEdit(sv.inserts[k].library)

-----------------------------------------------------------------------------
(* Class replacement: ClassReplacer inside ClipboardType *)

RECURSIVE ReplaceFrom(_, _, _, _)
\* content.replace(regex, targetClass) from position p on: the regex is the
\* escaped sourceClass with the g flag, so every occurrence found scanning left
\* to right is replaced and the scan goes on after the occurrence; the
\* replacement texts used here hold no $ pattern
ReplaceFrom(content, p, sourceClass, targetClass) ==
    IF p > Len(content) THEN << >>
    ELSE IF StartsWith(content, p, sourceClass)
         THEN targetClass \o ReplaceFrom(content, p + Len(sourceClass), sourceClass, targetClass)
         ELSE <<content[p]>> \o ReplaceFrom(content, p + 1, sourceClass, targetClass)

\* ClassReplacer.handleReplace: Null when an input is missing, else newContent
HandleReplaceResult(content, sourceClass, targetClass) ==
    IF sourceClass = << >> \/ targetClass = << >> THEN Null
    ELSE Some(ReplaceFrom(content, 1, sourceClass, targetClass))

\* a variant of handleReplaceContent that leaves the content as it is
HandleReplaceContentDropped(v, newContent) == v

\* ClipboardType.handleReplaceContent(newContent): setContent(newContent)
HandleReplaceContent(v, newContent) == [v EXCEPT !.content = StringData(newContent)]

\* renderContent: what the component shows for its content
RenderContent(v) == FormatContent(v.content.text, v.type)

\* the condition under which ClipboardType shows ClassReplacer and ClassReplacer
\* renders its form
ShowClassReplacer(v) ==
    /\ v.content.kind = "string"
    /\ \/ TypeIncludesJson(v.type)
       \/ (v.type = TextPlain /\ IsValidJson(v.content.text))
    /\ IsValidJson(v.content.text)

\* texts the user types into the source and target fields
ClassTexts == {<< >>, <<"w", "-">>, <<"x", "-">>}

\* JSON texts holding class names
ClassJson ==
    <<"[", Quote, "w", "-", "a", Quote, ",", Quote, "w", "-", "b", Quote, "]">>

ReplaceTexts == {ClassJson}

\* an entry of the history buffer with the view's payload and an HTML payload,
\* recorded after an older entry
ReplaceHistory(type, text) ==
    <<[data |-> [type |-> "ClipboardItem",
                 types |-> <<[type |-> type, data |-> StringData(text)],
                             [type |-> TextHtml, data |-> StringData(BoldHello)]>>],
       source |-> "ClipboardItems", timestamp |-> 1],
      [data |-> [type |-> "ClipboardItem",
                 types |-> <<[type |-> TextPlain, data |-> StringData(Hello)]>>],
       source |-> "ClipboardItems", timestamp |-> 0]>>

\* two entries are in the history; the ClipboardType of a JSON payload of the
\* newer one is mounted, its save form is open and a library of the user's own
\* is selected
InitReplace ==
    /\ ext = NoCall
    /\ order = << >>
    /\ urls = 0
    /\ label = "ClipboardItems"
    /\ toasts = "Clipboard content parsed"
    /\ caps = << >>
    /\ clock = 1
    /\ recorded = << >>
    /\ fmt = NoFormat
    /\ cp = NoCopy
    /\ clipboard = {}
    /\ textAreas = 0
    /\ copyListeners = 0
    /\ copies = 0
    /\ lib = NoLibraries
    /\ sv = [NoSave EXCEPT !.selectedLibrary = Some(OwnLibrary),
                           !.hasEditPermission = TRUE,
                           !.selections = 1]
    /\ \E type \in {TextPlain, AppJson}, text \in ReplaceTexts :
          /\ clipboardHistory = ReplaceHistory(type, text)
          /\ view = [NoView EXCEPT !.type = type, !.data = StringData(text),
                                   !.content = InitialContent(StringData(text))]

\* click on "Replace" in ClassReplacer: handleReplace, which calls onReplace,
\* the parent's handleReplaceContent
HandleReplace ==
    /\ view.replaced < MaxReplacements
    /\ ShowClassReplacer(view)
    /\ \E sourceClass \in ClassTexts, targetClass \in ClassTexts :
          LET result == HandleReplaceResult(view.content.text, sourceClass, targetClass)
          IN  IF result = Null
              THEN /\ toasts' = "Missing input"
                   /\ UNCHANGED view
              ELSE /\ toasts' = "Classes replaced"
                   /\ view' = [HandleReplaceContent(view, result[1]) EXCEPT
                                  !.replaced = @ + 1,
                                  !.replacement = Some([newContent |-> result[1]])]
    /\ UNCHANGED <<libraryVars, ext, order, urls, clipboardHistory, label, caps, clock, recorded,
                   fmt, cp, clipboard, textAreas, copyListeners, copies>>

\* the browser environments of the replacement runs: execCommand works or
\* throws, and the asynchronous clipboard API is complete or absent
ReplaceEnvs ==
    {env \in CopyEnvs : /\ env.throwAt \in {"none", "execCommand"}
                        /\ env.api \in {"full", "absent"}
                        /\ env.exec
                        /\ ~env.itemThrows}

\* click on "Copy content" after or before a replacement
CopyReplacedClick == CopyClickIn(ReplaceEnvs)

NextReplace ==
    \/ HandleReplace
    \/ CopyReplacedClick
    \/ CopySettles
    \/ CopiedTimeout
    \/ SubmitSave
    \/ SaveSettles

SpecReplace == InitReplace /\ [][NextReplace]_vars

-----------------------------------------------------------------------------
(* Claims about class replacement *)

\* the text the last replacement produced
Replaced == view.replacement[1].newContent

====
